---- MODULE Spec2Model ----
(***************************************************************************)
(* Model of the UAV log chatbot backend: the MAVLinkParser (ingestion,     *)
(* metadata extraction, anomaly detection) of backend/mavlink_parser.py,   *)
(* the session layer of backend/main.py (upload, chat, reset, delete,      *)
(* expiry of sessions and their files on disk) and the agent of            *)
(* backend/agent.py (tools, conversation history).                         *)
(*                                                                         *)
(* A decoded record is [type |-> tag, fields |-> mapping]; the mapping's   *)
(* domain is the set of fields the record carries.  Voltages are in tenths *)
(* of a volt (126 is 12.6 V), so the thresholds 0.5 and 1.0 are 5 and 10;  *)
(* timestamps are in microseconds and a quotient the code computes in      *)
(* floating point is kept as an exact fraction [num, den].                 *)
(***************************************************************************)
EXTENDS Integers, Sequences, FiniteSets, TLC

VARIABLES
    log,        \* the records the decoder yields for the file at file_path
    mlog,       \* MAVLinkParser.mlog: "None" or "open"
    messages,   \* MAVLinkParser.messages: type -> sequence of record dicts
    metadata,   \* MAVLinkParser.metadata: metric name -> value
    _parsed,    \* MAVLinkParser._parsed
    passes,     \* ingestion passes parse() has started on this parser
    decode_fault, \* the decoder call that raised in the last parse() (see Faults)
    ret,        \* what the last call returned or raised
    sessions,   \* main.sessions: session id -> [created_at, agent, parser, file_path]
    disk,       \* the files in UPLOAD_DIR, each named by the uuid of its temp_path
    uuids,      \* uuid4() calls so far; the n-th call returns n
    now         \* datetime.now(), in seconds

vars == <<log, mlog, messages, metadata, _parsed, passes, decode_fault, ret,
          sessions, disk, uuids, now>>

(***************************************************************************)
(* Bounds of the model.                                                    *)
(***************************************************************************)
MaxLen == 3         \* records in a log of the general specification
MaxPasses == 2      \* ingestion passes on one parser
MaxAltLen == 3      \* GPS records in a log of the altitude specification
MaxBatLen == 3      \* battery records in a log of the battery specification
MaxGpsLen == 10     \* GPS records in a log of the GPS-status specification
MaxLoss == 2        \* records without a 3D fix in such a log
MaxRcLen == 2       \* RCIN records in a log of the RC specification
MaxAppLen == 2      \* records in an uploaded log of the application
MaxUuids == 4       \* uuid4() calls
MaxHistory == 2     \* entries of a conversation history before a chat call
MaxTicks == 3       \* steps of the clock
TickSeconds == 1800 \* seconds in a step of the clock
MaxQueryLen == 1    \* records in a log of the query specification
MaxSeriesLen == 3   \* records in a log of the time-series specification

(***************************************************************************)
(* Program constants.                                                      *)
(***************************************************************************)
US_PER_SECOND == 1000000    \* 1e6
GPS_FIX_3D == 3             \* Status below this is a loss event
RC_LOSS_THRESHOLD == 900
RC_CHANNELS == 8            \* range(1, 9)
ALT_RATE_FLAG == 10         \* abs(rate) > 10
ALT_RATE_HIGH == 20         \* abs(rate) > 20
VOLT_DROP_FLAG == 5         \* volt_diff < -0.5, in tenths of a volt
VOLT_DROP_HIGH == 10        \* volt_diff < -1.0, in tenths of a volt
VIBE_FLAG == 30
VIBE_HIGH == 60

(***************************************************************************)
(* Python helpers.                                                         *)
(***************************************************************************)
EmptyDict == <<>>

\* dict.get(key, default)
Get(d, key, default) == IF key \in DOMAIN d THEN d[key] ELSE default

\* d[key] = value
Put(d, key, value) == (key :> value) @@ d

Range(s) == {s[i] : i \in DOMAIN s}

\* [f(x) for x in s]
Map(s, f(_)) == [i \in 1..Len(s) |-> f(s[i])]

SeqMin(s) == CHOOSE x \in Range(s) : \A y \in Range(s) : x <= y
SeqMax(s) == CHOOSE x \in Range(s) : \A y \in Range(s) : x >= y

RECURSIVE SeqSum(_)
SeqSum(s) == IF s = <<>> THEN 0 ELSE s[1] + SeqSum(Tail(s))

RECURSIVE SetSum(_, _)
\* sum(d.values()) over the keys in S
SetSum(d, S) ==
    IF S = {} THEN 0
    ELSE LET k == CHOOSE k \in S : TRUE IN d[k] + SetSum(d, S \ {k})

Abs(x) == IF x < 0 THEN -x ELSE x

Max3(a, b, c) == SeqMax(<<a, b, c>>)

\* msg.to_dict(): the record's fields and its type under 'mavpackettype'
to_dict(msg) == Put(msg.fields, "mavpackettype", msg.type)

(***************************************************************************)
(* MAVLinkParser._extract_all_messages.  fault is the number of the        *)
(* recv_match call that raises (0: none does).  The result is the store,   *)
(* the local message_counts and whether the loop ran to its end.           *)
(***************************************************************************)
ExtractStepNoKeyError(msgs, counts, msg) ==
    LET t == msg.type
        fresh == t \notin DOMAIN msgs
        msgs1 == IF fresh THEN Put(msgs, t, <<>>) ELSE msgs
        counts1 == IF t \notin DOMAIN counts THEN Put(counts, t, 0) ELSE counts
    IN  [messages |-> [msgs1 EXCEPT ![t] = Append(@, to_dict(msg))],
         counts |-> [counts1 EXCEPT ![t] = @ + 1],
         ok |-> TRUE]

ExtractStepPrepend(msgs, counts, msg) ==
    LET t == msg.type
        fresh == t \notin DOMAIN msgs
        msgs1 == IF fresh THEN Put(msgs, t, <<>>) ELSE msgs
        counts1 == IF fresh THEN Put(counts, t, 0) ELSE counts
        msgs2 == [msgs1 EXCEPT ![t] = <<to_dict(msg)>> \o @]
    IN  IF t \in DOMAIN counts1
        THEN [messages |-> msgs2,
              counts |-> [counts1 EXCEPT ![t] = @ + 1],
              ok |-> TRUE]
        ELSE [messages |-> msgs2, counts |-> counts1, ok |-> FALSE]

\* lines 48-56: one record that is not BAD_DATA
ExtractStep(msgs, counts, msg) ==
    LET t == msg.type
        fresh == t \notin DOMAIN msgs
        msgs1 == IF fresh THEN Put(msgs, t, <<>>) ELSE msgs
        counts1 == IF fresh THEN Put(counts, t, 0) ELSE counts
        msgs2 == [msgs1 EXCEPT ![t] = Append(@, to_dict(msg))]
    IN  IF t \in DOMAIN counts1
        THEN [messages |-> msgs2,
              counts |-> [counts1 EXCEPT ![t] = @ + 1],
              ok |-> TRUE]
        ELSE \* message_counts[msg_type] += 1 raises KeyError after the append
             [messages |-> msgs2, counts |-> counts1, ok |-> FALSE]

RECURSIVE ExtractLoop(_, _, _, _, _)
\* lines 37-56; `decoder` is the recv_match call that raised, or 0
ExtractLoop(records, i, msgs, counts, fault) ==
    IF i > Len(records)
    THEN [messages |-> msgs, counts |-> counts, ok |-> TRUE, decoder |-> 0]
    ELSE IF i = fault
    THEN [messages |-> msgs, counts |-> counts, ok |-> FALSE, decoder |-> i]
    ELSE IF records[i].type = "BAD_DATA"
    THEN ExtractLoop(records, i + 1, msgs, counts, fault)
    ELSE LET step == ExtractStep(msgs, counts, records[i])
         IN  IF step.ok
             THEN ExtractLoop(records, i + 1, step.messages, step.counts, fault)
             ELSE [messages |-> step.messages, counts |-> step.counts,
                   ok |-> FALSE, decoder |-> 0]

\* the store and metadata after the call, and whether it returned
_extract_all_messages(records, msgs, md, fault) ==
    LET r == ExtractLoop(records, 1, msgs, EmptyDict, fault)
    IN  IF r.ok
        THEN [messages |-> r.messages,
              metadata |-> Put(Put(md, "message_counts", r.counts),
                               "total_messages", SetSum(r.counts, DOMAIN r.counts)),
              ok |-> TRUE, decoder |-> 0]
        ELSE [messages |-> r.messages, metadata |-> md, ok |-> FALSE,
              decoder |-> r.decoder]

(***************************************************************************)
(* MAVLinkParser._compute_metadata, section by section.  Each section      *)
(* takes the store and the metadata so far and gives the metadata after.   *)
(***************************************************************************)
\* lines 64-69: time range
TimeRangeMeta(msgs, md) ==
    IF "GPS" \in DOMAIN msgs /\ Len(msgs["GPS"]) > 0
    THEN LET gps_times == Map(msgs["GPS"], LAMBDA m : Get(m, "TimeUS", 0))
         IN  Put(Put(Put(md,
                "start_time_us", SeqMin(gps_times)),
                "end_time_us", SeqMax(gps_times)),
                "duration_seconds",
                    [num |-> SeqMax(gps_times) - SeqMin(gps_times),
                     den |-> US_PER_SECOND])
    ELSE md

\* lines 72-77: altitude statistics
AltitudeMeta(msgs, md) ==
    IF "GPS" \in DOMAIN msgs
    THEN LET altitudes == Map(SelectSeq(msgs["GPS"], LAMBDA m : "Alt" \in DOMAIN m),
                              LAMBDA m : Get(m, "Alt", 0))
         IN  IF altitudes # <<>>
             THEN Put(Put(Put(md,
                    "max_altitude_m", SeqMax(altitudes)),
                    "min_altitude_m", SeqMin(altitudes)),
                    "avg_altitude_m",
                        [num |-> SeqSum(altitudes), den |-> Len(altitudes)])
             ELSE md
    ELSE md

\* lines 81 and 263: 'BAT' if present, else 'BATT' if present, else None
BattKey(msgs) ==
    IF "BAT" \in DOMAIN msgs THEN "BAT"
    ELSE IF "BATT" \in DOMAIN msgs THEN "BATT"
    ELSE "None"

\* lines 80-90: battery statistics
BatteryMeta(msgs, md) ==
    IF "BAT" \in DOMAIN msgs \/ "BATT" \in DOMAIN msgs
    THEN LET batt_key == BattKey(msgs)
             voltages == Map(SelectSeq(msgs[batt_key], LAMBDA m : "Volt" \in DOMAIN m),
                             LAMBDA m : Get(m, "Volt", 0))
             temps == Map(SelectSeq(msgs[batt_key], LAMBDA m : "Temp" \in DOMAIN m),
                          LAMBDA m : Get(m, "Temp", 0))
             md1 == IF voltages # <<>>
                    THEN Put(Put(md, "max_battery_voltage", SeqMax(voltages)),
                             "min_battery_voltage", SeqMin(voltages))
                    ELSE md
         IN  IF temps # <<>>
             THEN Put(Put(md1, "max_battery_temp", SeqMax(temps)),
                      "min_battery_temp", SeqMin(temps))
             ELSE md1
    ELSE md

\* line 100: msg.get('Status', 0) < 3
IsGpsLossAtMost(msg) == Get(msg, "Status", 0) <= GPS_FIX_3D
IsGpsLoss(msg) == Get(msg, "Status", 0) < GPS_FIX_3D

\* lines 101-105: the event of the record at position i (from 0)
GpsLossEvent(i, msg) ==
    [index |-> i, time_us |-> Get(msg, "TimeUS", 0), status |-> Get(msg, "Status", 0)]

RECURSIVE GpsLossLoop(_, _, _)
\* lines 98-105: for i, msg in enumerate(self.messages['GPS'])
GpsLossLoop(seq, i, events) ==
    IF i >= Len(seq) THEN events
    ELSE GpsLossLoop(seq, i + 1,
            IF IsGpsLoss(seq[i + 1])
            THEN Append(events, GpsLossEvent(i, seq[i + 1]))
            ELSE events)

\* lines 93-106: GPS status
GpsStatusMeta(msgs, md) ==
    IF "GPS" \in DOMAIN msgs
    THEN LET gps_status == Map(msgs["GPS"], LAMBDA m : Get(m, "Status", 0))
         IN  Put(Put(md, "gps_fix_types", Range(gps_status)),
                 "gps_loss_events", GpsLossLoop(msgs["GPS"], 0, <<>>))
    ELSE md

\* lines 109-117: error messages
ErrorsMeta(msgs, md) ==
    IF "ERR" \in DOMAIN msgs
    THEN Put(md, "errors",
             Map(msgs["ERR"], LAMBDA m : [subsystem |-> Get(m, "Subsys", 0),
                                         error_code |-> Get(m, "ECode", 0),
                                         time_us |-> Get(m, "TimeUS", 0)]))
    ELSE md

\* lines 120-128: mode changes
ModeMeta(msgs, md) ==
    IF "MODE" \in DOMAIN msgs
    THEN Put(md, "mode_changes",
             Map(msgs["MODE"], LAMBDA m : [mode |-> Get(m, "Mode", 0),
                                          mode_num |-> Get(m, "ModeNum", 0),
                                          time_us |-> Get(m, "TimeUS", 0)]))
    ELSE md

\* f'C{j}'
ChannelName(j) == <<"C1", "C2", "C3", "C4", "C5", "C6", "C7", "C8", "C9">>[j]

\* line 135: [msg.get(f'C{j}', 0) for j in range(1, 9)]
Channels(msg) == [j \in 1..RC_CHANNELS |-> Get(msg, ChannelName(j), 0)]

\* line 136: all(c < 900 for c in channels)
IsRcLossAny(msg) == \E j \in 1..RC_CHANNELS : Channels(msg)[j] < RC_LOSS_THRESHOLD
IsRcLoss(msg) == \A j \in 1..RC_CHANNELS : Channels(msg)[j] < RC_LOSS_THRESHOLD

\* lines 137-140
RcLossEvent(i, msg) == [index |-> i, time_us |-> Get(msg, "TimeUS", 0)]

RECURSIVE RcLossLoop(_, _, _)
\* lines 133-140: for i, msg in enumerate(self.messages['RCIN'])
RcLossLoop(seq, i, events) ==
    IF i >= Len(seq) THEN events
    ELSE RcLossLoop(seq, i + 1,
            IF IsRcLoss(seq[i + 1])
            THEN Append(events, RcLossEvent(i, seq[i + 1]))
            ELSE events)

\* lines 131-141: RC signal loss
RcLossMeta(msgs, md) ==
    IF "RCIN" \in DOMAIN msgs
    THEN Put(md, "rc_loss_events", RcLossLoop(msgs["RCIN"], 0, <<>>))
    ELSE md

_compute_metadata(msgs, md) ==
    RcLossMeta(msgs,
      ModeMeta(msgs,
        ErrorsMeta(msgs,
          GpsStatusMeta(msgs,
            BatteryMeta(msgs,
              AltitudeMeta(msgs,
                TimeRangeMeta(msgs, md)))))))

\* MAVLinkParser.get_summary
get_summary(p) ==
    [parsed |-> p._parsed,
     metadata |-> p.metadata,
     message_types |-> DOMAIN p.messages,
     message_counts |-> Get(p.metadata, "message_counts", EmptyDict)]

(***************************************************************************)
(* MAVLinkParser.detect_anomalies.                                         *)
(***************************************************************************)
\* a quotient num/den with den > 0 compared with a whole number
FracAbsExceeds(q, limit) == Abs(q.num) > limit * q.den

\* lines 248-249, 252: samples are <<TimeUS, Alt>>; time_diff is dt / 1e6
AltRate(prev, cur) ==
    [num |-> (cur[2] - prev[2]) * US_PER_SECOND, den |-> cur[1] - prev[1]]

\* lines 251, 254: time_diff > 0 and abs(rate) > 10
AltFlaggedNoTimeCheck(prev, cur) ==
    Abs(cur[2] - prev[2]) * US_PER_SECOND > ALT_RATE_FLAG * Abs(cur[1] - prev[1])
AltFlagged(prev, cur) ==
    /\ cur[1] - prev[1] > 0
    /\ FracAbsExceeds(AltRate(prev, cur), ALT_RATE_FLAG)

\* lines 255-260
AltAnomaly(prev, cur) ==
    [time_us |-> cur[1],
     rate_m_per_s |-> AltRate(prev, cur),
     altitude_change_m |-> cur[2] - prev[2],
     severity |-> IF FracAbsExceeds(AltRate(prev, cur), ALT_RATE_HIGH)
                  THEN "high" ELSE "medium"]

RECURSIVE AltLoop(_, _, _)
\* lines 247-260: for i in range(1, len(altitudes)); i counts from 0
AltLoop(samples, i, found) ==
    IF i >= Len(samples) THEN found
    ELSE AltLoop(samples, i + 1,
            IF AltFlagged(samples[i], samples[i + 1])
            THEN Append(found, AltAnomaly(samples[i], samples[i + 1]))
            ELSE found)

\* lines 243-260
AltitudeAnomalies(msgs) ==
    IF "GPS" \in DOMAIN msgs
    THEN AltLoop(Map(SelectSeq(msgs["GPS"], LAMBDA m : "Alt" \in DOMAIN m),
                     LAMBDA m : <<Get(m, "TimeUS", 0), Get(m, "Alt", 0)>>),
                 1, <<>>)
    ELSE <<>>

\* line 271: volt_diff < -0.5; samples are <<TimeUS, Volt>>
VoltFlaggedAnyChange(prev, cur) == Abs(cur[2] - prev[2]) > VOLT_DROP_FLAG
VoltFlagged(prev, cur) == cur[2] - prev[2] < -VOLT_DROP_FLAG

\* lines 272-276
VoltAnomaly(prev, cur) ==
    [time_us |-> cur[1],
     voltage_drop |-> cur[2] - prev[2],
     severity |-> IF cur[2] - prev[2] < -VOLT_DROP_HIGH THEN "high" ELSE "medium"]

RECURSIVE VoltLoop(_, _, _)
\* lines 268-276
VoltLoop(samples, i, found) ==
    IF i >= Len(samples) THEN found
    ELSE VoltLoop(samples, i + 1,
            IF VoltFlagged(samples[i], samples[i + 1])
            THEN Append(found, VoltAnomaly(samples[i], samples[i + 1]))
            ELSE found)

\* lines 263-276
BatteryAnomalies(msgs) ==
    IF BattKey(msgs) # "None"
    THEN VoltLoop(Map(SelectSeq(msgs[BattKey(msgs)], LAMBDA m : "Volt" \in DOMAIN m),
                      LAMBDA m : <<Get(m, "TimeUS", 0), Get(m, "Volt", 0)>>),
                  1, <<>>)
    ELSE <<>>

\* lines 279-280: the metadata's list when it is there and not empty
GpsAnomalies(md) ==
    IF Get(md, "gps_loss_events", <<>>) # <<>> THEN md["gps_loss_events"] ELSE <<>>

\* lines 285-297: one VIBE record
VibeMax(m) == Max3(Get(m, "VibeX", 0), Get(m, "VibeY", 0), Get(m, "VibeZ", 0))

VibeAnomaly(m) ==
    [time_us |-> Get(m, "TimeUS", 0),
     vibe_x |-> Get(m, "VibeX", 0),
     vibe_y |-> Get(m, "VibeY", 0),
     vibe_z |-> Get(m, "VibeZ", 0),
     severity |-> IF VibeMax(m) > VIBE_HIGH THEN "high" ELSE "medium"]

\* lines 283-297
VibrationAnomalies(msgs) ==
    IF "VIBE" \in DOMAIN msgs
    THEN Map(SelectSeq(msgs["VIBE"], LAMBDA m : VibeMax(m) > VIBE_FLAG), VibeAnomaly)
    ELSE <<>>

\* the returned dictionary
DetectAnomalies(msgs, md) ==
    [altitude_anomalies |-> AltitudeAnomalies(msgs),
     battery_anomalies |-> BatteryAnomalies(msgs),
     gps_anomalies |-> GpsAnomalies(md),
     vibration_anomalies |-> VibrationAnomalies(msgs),
     sudden_changes |-> <<>>]

\* messages[:limit]
Slice(s, limit) ==
    LET n == IF limit >= 0 THEN limit ELSE Len(s) + limit
    IN  IF n <= 0 THEN <<>> ELSE SubSeq(s, 1, IF n < Len(s) THEN n ELSE Len(s))

\* MAVLinkParser.get_messages; has_limit is FALSE when limit is None
GetMessages(msgs, msg_type, has_limit, limit) ==
    IF msg_type \notin DOMAIN msgs THEN <<>>
    ELSE IF has_limit /\ limit # 0 THEN Slice(msgs[msg_type], limit)
    ELSE msgs[msg_type]

(***************************************************************************)
(* Text.  A str is the sequence of its characters, so that `in` is a       *)
(* search for a contiguous run and lower() maps character by character.    *)
(***************************************************************************)
UpperCase == <<"A", "B", "C", "D", "E", "F", "G", "H", "I", "J", "K", "L", "M",
               "N", "O", "P", "Q", "R", "S", "T", "U", "V", "W", "X", "Y", "Z">>
LowerCase == <<"a", "b", "c", "d", "e", "f", "g", "h", "i", "j", "k", "l", "m",
               "n", "o", "p", "q", "r", "s", "t", "u", "v", "w", "x", "y", "z">>

\* str.lower() on one character
LowerChar(c) ==
    IF \E i \in DOMAIN UpperCase : UpperCase[i] = c
    THEN LowerCase[CHOOSE i \in DOMAIN UpperCase : UpperCase[i] = c]
    ELSE c

\* str.lower()
Lower(s) == [i \in 1..Len(s) |-> LowerChar(s[i])]

\* sub in s
Contains(s, sub) ==
    \E i \in 0..(Len(s) - Len(sub)) : \A j \in 1..Len(sub) : s[i + j] = sub[j]

\* dict.get(key): None is <<>>, a value v is <<v>>
None == <<>>
Some(v) == <<v>>
OptGet(d, key) == IF key \in DOMAIN d THEN Some(d[key]) ELSE None

(***************************************************************************)
(* MAVLinkParser.query_data.  The values of the result are optional: a     *)
(* metric read with .get(key) is None when the metadata has no such key.   *)
(***************************************************************************)
\* the literals the query is searched for
Keyword ==
    [altitude |-> <<"a", "l", "t", "i", "t", "u", "d", "e">>,
     height |-> <<"h", "e", "i", "g", "h", "t">>,
     max |-> <<"m", "a", "x">>,
     highest |-> <<"h", "i", "g", "h", "e", "s", "t">>,
     min |-> <<"m", "i", "n">>,
     lowest |-> <<"l", "o", "w", "e", "s", "t">>,
     average |-> <<"a", "v", "e", "r", "a", "g", "e">>,
     avg |-> <<"a", "v", "g">>,
     battery |-> <<"b", "a", "t", "t", "e", "r", "y">>,
     voltage |-> <<"v", "o", "l", "t", "a", "g", "e">>,
     temperature |-> <<"t", "e", "m", "p", "e", "r", "a", "t", "u", "r", "e">>,
     gps |-> <<"g", "p", "s">>,
     flight_time |-> <<"f", "l", "i", "g", "h", "t", " ", "t", "i", "m", "e">>,
     duration |-> <<"d", "u", "r", "a", "t", "i", "o", "n">>,
     error |-> <<"e", "r", "r", "o", "r">>,
     rc |-> <<"r", "c">>,
     radio |-> <<"r", "a", "d", "i", "o">>,
     signal_loss |-> <<"s", "i", "g", "n", "a", "l", " ", "l", "o", "s", "s">>]

\* 'kw' in query_lower
Has(q, kw) == Contains(q, Keyword[kw])

\* lines 172-178
AltitudeQuery(md, q, result) ==
    IF Has(q, "altitude") \/ Has(q, "height")
    THEN LET r1 == IF Has(q, "max") \/ Has(q, "highest")
                   THEN Put(result, "max_altitude_m", OptGet(md, "max_altitude_m"))
                   ELSE result
             r2 == IF Has(q, "min") \/ Has(q, "lowest")
                   THEN Put(r1, "min_altitude_m", OptGet(md, "min_altitude_m"))
                   ELSE r1
         IN  IF Has(q, "average") \/ Has(q, "avg")
             THEN Put(r2, "avg_altitude_m", OptGet(md, "avg_altitude_m"))
             ELSE r2
    ELSE result

\* lines 181-183
BatteryQuery(md, q, result) ==
    IF Has(q, "battery") \/ Has(q, "voltage")
    THEN Put(Put(result, "battery_voltage_max", OptGet(md, "max_battery_voltage")),
             "battery_voltage_min", OptGet(md, "min_battery_voltage"))
    ELSE result

\* lines 185-187
TemperatureQuery(md, q, result) ==
    IF Has(q, "temperature") /\ Has(q, "battery")
    THEN Put(Put(result, "battery_temp_max", OptGet(md, "max_battery_temp")),
             "battery_temp_min", OptGet(md, "min_battery_temp"))
    ELSE result

\* lines 190-192; gps_fix_types is list(set(...)), kept as the set
GpsQuery(md, q, result) ==
    IF Has(q, "gps")
    THEN Put(Put(result, "gps_loss_events", Some(Get(md, "gps_loss_events", <<>>))),
             "gps_fix_types", Some(Get(md, "gps_fix_types", {})))
    ELSE result

\* line 197: self.metadata.get('duration_seconds', 0) / 60
DurationMinutes(md) ==
    LET seconds == Get(md, "duration_seconds", [num |-> 0, den |-> 1])
    IN  [num |-> seconds.num, den |-> seconds.den * 60]

\* lines 195-197
DurationQuery(md, q, result) ==
    IF Has(q, "flight_time") \/ Has(q, "duration")
    THEN Put(Put(result, "duration_seconds", OptGet(md, "duration_seconds")),
             "duration_minutes", Some(DurationMinutes(md)))
    ELSE result

\* lines 200-201
ErrorQuery(md, q, result) ==
    IF Has(q, "error")
    THEN Put(result, "errors", Some(Get(md, "errors", <<>>)))
    ELSE result

\* lines 204-205
RcQuery(md, q, result) ==
    IF Has(q, "rc") \/ Has(q, "radio") \/ Has(q, "signal_loss")
    THEN Put(result, "rc_loss_events", Some(Get(md, "rc_loss_events", <<>>)))
    ELSE result

\* the returned mapping
QueryData(md, query) ==
    LET q == Lower(query)
    IN  RcQuery(md, q,
          ErrorQuery(md, q,
            DurationQuery(md, q,
              GpsQuery(md, q,
                TemperatureQuery(md, q,
                  BatteryQuery(md, q,
                    AltitudeQuery(md, q, EmptyDict)))))))

(***************************************************************************)
(* MAVLinkParser.get_time_series.  The DataFrame is the sequence of its    *)
(* rows; the result is None or the frame.                                  *)
(***************************************************************************)
\* lines 217-220 and 226: the row of one record
TimeSeriesRow(msg, field) ==
    [time_us |-> msg["TimeUS"],
     value |-> msg[field],
     time_seconds |-> [num |-> msg["TimeUS"], den |-> US_PER_SECOND]]

\* line 216
TimeSeriesKeep(msg, field) == "TimeUS" \in DOMAIN msg /\ field \in DOMAIN msg

GetTimeSeriesEmptyFrame(msgs, msg_type, field) ==
    IF msg_type \notin DOMAIN msgs THEN None
    ELSE LET kept == SelectSeq(msgs[msg_type], LAMBDA m : TimeSeriesKeep(m, field))
         IN  Some([i \in 1..Len(kept) |-> TimeSeriesRow(kept[i], field)])

GetTimeSeries(msgs, msg_type, field) ==
    IF msg_type \notin DOMAIN msgs THEN None
    ELSE LET kept == SelectSeq(msgs[msg_type], LAMBDA m : TimeSeriesKeep(m, field))
             data == [i \in 1..Len(kept) |-> TimeSeriesRow(kept[i], field)]
         IN  IF data = <<>> THEN None ELSE Some(data)

(***************************************************************************)
(* The logs the specifications start from.                                 *)
(***************************************************************************)
Rec(t, f) == [type |-> t, fields |-> f]

Logs(U, n) == UNION {[1..k -> U] : k \in 0..n}

\* the general specification: every type the parser looks at, records with
\* and without the fields it reads, and a record the decoder tags BAD_DATA
MainRecords ==
    {Rec("GPS", [TimeUS |-> 1000000, Alt |-> 10, Status |-> 3]),
     Rec("GPS", [Alt |-> 15, Status |-> 2]),
     Rec("GPS", [TimeUS |-> 3000000]),
     Rec("BAT", [TimeUS |-> 2000000, Volt |-> 126, Temp |-> 30]),
     Rec("BATT", [TimeUS |-> 2500000, Volt |-> 118]),
     Rec("RCIN", [TimeUS |-> 5000000, C1 |-> 850, C2 |-> 850, C3 |-> 850, C4 |-> 850,
                  C5 |-> 850, C6 |-> 850, C7 |-> 850, C8 |-> 850]),
     Rec("BAD_DATA", EmptyDict)}

Types == {"GPS", "BAT", "BATT", "ERR", "MODE", "RCIN", "VIBE", "ATT", "BAD_DATA"}

\* the recv_match call that raises in a pass over records: -1 when
\* mavlink_connection itself raises, 0 when nothing does
Faults(records) == -1..Len(records)

NoParser == <<>>

InitParser(L) ==
    /\ log \in L
    /\ mlog = "None"
    /\ messages = EmptyDict
    /\ metadata = EmptyDict
    /\ _parsed = FALSE
    /\ passes = 0
    /\ decode_fault = 0
    /\ ret = [op |-> "__init__"]
    /\ sessions = EmptyDict
    /\ disk = {}
    /\ uuids = 0
    /\ now = 0

Init == InitParser(Logs(MainRecords, MaxLen))

(***************************************************************************)
(* MAVLinkParser.parse as a function of the parser's fields: the fields    *)
(* after the call, whether it raised ValueError, and the decoder call that *)
(* raised (-1: mavlink_connection, 0: none).                               *)
(***************************************************************************)
ParseResult(p, records, f) ==
    IF p._parsed THEN [p EXCEPT !.raised = FALSE, !.decoder = 0]
    ELSE IF f = -1 THEN [p EXCEPT !.raised = TRUE, !.decoder = -1]
    ELSE LET x == _extract_all_messages(records, p.messages, p.metadata, f)
         IN  IF x.ok
             THEN [mlog |-> "open",
                   messages |-> x.messages,
                   metadata |-> _compute_metadata(x.messages, x.metadata),
                   _parsed |-> TRUE,
                   raised |-> FALSE,
                   decoder |-> 0]
             ELSE [mlog |-> "open",
                   messages |-> x.messages,
                   metadata |-> x.metadata,
                   _parsed |-> FALSE,
                   raised |-> TRUE,
                   decoder |-> x.decoder]

\* the parser the variables hold
Self == [mlog |-> mlog, messages |-> messages, metadata |-> metadata,
         _parsed |-> _parsed, raised |-> FALSE, decoder |-> 0]

\* MAVLinkParser(file_path)
NewParser == [mlog |-> "None", messages |-> EmptyDict, metadata |-> EmptyDict,
              _parsed |-> FALSE, raised |-> FALSE, decoder |-> 0]

\* parser.parse() by any caller of the class
parse ==
    /\ _parsed \/ passes < MaxPasses
    /\ \E f \in Faults(log) :
        LET q == ParseResult(Self, log, f)
        IN  /\ mlog' = q.mlog
            /\ messages' = q.messages
            /\ metadata' = q.metadata
            /\ _parsed' = q._parsed
            /\ decode_fault' = q.decoder
            /\ ret' = IF q.raised
                      THEN [op |-> "parse", raised |-> TRUE]
                      ELSE [op |-> "parse", raised |-> FALSE,
                            value |-> get_summary(q)]
    /\ passes' = (IF _parsed THEN passes ELSE passes + 1)
    /\ UNCHANGED <<log, sessions, disk, uuids, now>>

\* parser.detect_anomalies() by any caller of the class
detect_anomalies ==
    /\ ret' = [op |-> "detect_anomalies", value |-> DetectAnomalies(messages, metadata)]
    /\ UNCHANGED <<log, mlog, messages, metadata, _parsed, passes, decode_fault,
                   sessions, disk, uuids, now>>

Next == parse \/ detect_anomalies

Spec == Init /\ [][Next]_vars

(***************************************************************************)
(* Properties of ingestion (specification Spec).                           *)
(***************************************************************************)
\* the positions of the log whose record is tagged t
Tagged(t) == {i \in DOMAIN log : log[i].type = t}

\* the records of the store, one per type and position
Stored == {<<t, i>> \in Types \X (1..(MaxLen + 1) * MaxPasses) :
              t \in DOMAIN messages /\ i <= Len(messages[t])}

\* parse() has been called and no call has completed
Failed == passes > 0 /\ ~_parsed

\* C1: after parse() succeeds, total_messages is the sum of message_counts,
\* message_counts[t] is the length of messages[t] for every type t of the
\* store, and the sum is the number of records the store holds.
C1_CountsMatchStore ==
    _parsed =>
        /\ {"total_messages", "message_counts"} \subseteq DOMAIN metadata
        /\ DOMAIN metadata["message_counts"] = DOMAIN messages
        /\ \A t \in DOMAIN messages :
              metadata["message_counts"][t] = Len(messages[t])
        /\ metadata["total_messages"]
              = SetSum(metadata["message_counts"], DOMAIN metadata["message_counts"])
        /\ metadata["total_messages"] = Cardinality(Stored)

C1_Witness ==
    /\ _parsed
    /\ metadata["total_messages"] >= 3
    /\ Cardinality(DOMAIN messages) >= 2

\* C2: parse() is idempotent on one parser: a second call leaves the store
\* and the metadata as the first left them; in particular no record of the
\* log is stored twice, so the store never holds more records of a type than
\* the log does.
C2_NoRecordStoredTwice ==
    \A t \in DOMAIN messages : Len(messages[t]) <= Cardinality(Tagged(t))

\* C3: when the decode stream cannot be opened or fails part-way, parse()
\* raises and the parser holds no record and no metric of the failed pass.
C3_NoPartialStoreAfterFailure ==
    Failed => messages = EmptyDict /\ metadata = EmptyDict

\* C5: after ingestion the sequence stored under each type t is the
\* subsequence of the log's records tagged t, in arrival order; BAD_DATA
\* records are skipped and do not abort the pass (a first pass in which the
\* decoder does not fail completes); a type is a key of the store iff some
\* record of the log that is not BAD_DATA carries it.
C5_StoreIsPerTypeSubsequence ==
    /\ (passes = 1 /\ decode_fault = 0) => _parsed
    /\ _parsed =>
        /\ DOMAIN messages \subseteq Types \ {"BAD_DATA"}
        /\ \A t \in Types \ {"BAD_DATA"} :
              /\ t \in DOMAIN messages <=> Tagged(t) # {}
              /\ t \in DOMAIN messages =>
                    messages[t] = Map(SelectSeq(log, LAMBDA r : r.type = t), to_dict)

C5_Witness ==
    /\ _parsed
    /\ Len(log) = 3
    /\ log[1].type = "GPS" /\ log[2].type = "BAD_DATA" /\ log[3].type = "GPS"
    /\ log[1] # log[3]
    /\ Len(messages["GPS"]) = 2

\* the GPS records of the store that carry field f
GpsWith(f) ==
    IF "GPS" \in DOMAIN messages
    THEN {i \in DOMAIN messages["GPS"] : f \in DOMAIN messages["GPS"][i]}
    ELSE {}

\* C6: a metric is in the metadata only if the data it is computed from is
\* in the log, and no metric holds a zero standing in for a field a record
\* does not carry: the time bounds are timestamps of GPS records, every fix
\* type is the Status of a GPS record, and every GPS-loss event carries the
\* TimeUS and the Status of the record at its index.
C6_NoZeroPlaceholder ==
    _parsed =>
        /\ \A k \in {"start_time_us", "end_time_us"} :
              k \in DOMAIN metadata =>
                 \E i \in GpsWith("TimeUS") : messages["GPS"][i]["TimeUS"] = metadata[k]
        /\ "duration_seconds" \in DOMAIN metadata => GpsWith("TimeUS") # {}
        /\ "max_altitude_m" \in DOMAIN metadata => GpsWith("Alt") # {}
        /\ "gps_fix_types" \in DOMAIN metadata =>
              \A st \in metadata["gps_fix_types"] :
                 \E i \in GpsWith("Status") : messages["GPS"][i]["Status"] = st
        /\ "gps_loss_events" \in DOMAIN metadata =>
              \A n \in DOMAIN metadata["gps_loss_events"] :
                 LET e == metadata["gps_loss_events"][n]
                 IN  /\ e.index + 1 \in GpsWith("TimeUS") \cap GpsWith("Status")
                     /\ messages["GPS"][e.index + 1]["TimeUS"] = e.time_us
                     /\ messages["GPS"][e.index + 1]["Status"] = e.status

(***************************************************************************)
(* The application.  upload_log (main.py) writes the uploaded file under a  *)
(* fresh name, finds or makes the session, builds a parser for the file,   *)
(* parses it and hands it to the session and to the session's agent; the   *)
(* agent's tools (agent.py) run on the parser the agent holds.  A parser   *)
(* held by a session is [messages, metadata, _parsed]; None is <<>>, the   *)
(* session id None and the file_path None are 0.                           *)
(***************************************************************************)
AppRecords == {Rec("GPS", [TimeUS |-> 3000000, Alt |-> 100, Status |-> 2])}

\* config.py: settings
session_timeout == 3600
max_file_size_mb == 100

InitApp == InitParser({<<>>})

\* FlightAnalysisAgent.__init__
NewAgent == [parser |-> NoParser, context |-> EmptyDict, conversation_history |-> <<>>]

\* the parser object a session and its agent hold
Held(q) == <<[messages |-> q.messages, metadata |-> q.metadata, _parsed |-> q._parsed]>>

\* FlightAnalysisAgent.set_parser
set_parser(ag, q) ==
    [ag EXCEPT !.parser = Held(q),
               !.context = Put(Put(ag.context, "log_loaded", TRUE),
                               "log_summary", get_summary(q))]

\* main.py lines 151-170: the session after parser.parse() returned or raised
UploadStoreAlways(session, q, temp_path) ==
    [session EXCEPT !.parser = Held(q),
                    !.file_path = temp_path,
                    !.agent = set_parser(@, q)]
UploadStore(session, q, temp_path) ==
    IF q.raised THEN session
    ELSE [session EXCEPT !.parser = Held(q),
                         !.file_path = temp_path,
                         !.agent = set_parser(@, q)]

\* file.filename.endswith(suffix)
EndsWith(name, suffix) ==
    /\ Len(name) >= Len(suffix)
    /\ SubSeq(name, Len(name) - Len(suffix) + 1, Len(name)) = suffix

\* '.bin'
DotBin == <<".", "b", "i", "n">>

\* the names and sizes (in bytes) of the files a client uploads
FileNames ==
    {<<"a", ".", "b", "i", "n">>, <<"a", ".", "B", "I", "N">>, <<"b", "i", "n">>}
FileSizes ==
    {max_file_size_mb * 1024 * 1024, max_file_size_mb * 1024 * 1024 + 1}

\* lines 62-70: the sessions older than the timeout at time t
Expired(ss, t) == {sid \in DOMAIN ss : t - ss[sid].created_at > session_timeout}

\* lines 72-79: the sessions and the files left by cleanup_old_sessions
CleanupSessions(ss, t) == [sid \in DOMAIN ss \ Expired(ss, t) |-> ss[sid]]
CleanupDisk(ss, files, t) == files \ {ss[sid].file_path : sid \in Expired(ss, t)}

\* lines 90-95: the session a new id is given
NewSession(t) ==
    [created_at |-> t, agent |-> NewAgent, parser |-> NoParser, file_path |-> 0]

\* get_or_create_session: the sessions after the call, the id returned and
\* whether uuid4() was called; fresh is the id uuid4() would return
get_or_create_session(ss, t, session_id, fresh) ==
    LET kept == CleanupSessions(ss, t)
    IN  IF session_id # 0 /\ session_id \in DOMAIN kept
        THEN [sessions |-> kept, session_id |-> session_id, created |-> FALSE]
        ELSE [sessions |-> Put(kept, fresh, NewSession(t)),
              session_id |-> fresh, created |-> TRUE]

\* the session ids a client sends: None, the id of a session, an id that
\* was never given out
SessionIds(ss) == {0, MaxUuids + 1} \cup DOMAIN ss

\* POST /api/upload
upload_log ==
    \/ \* line 123: the file name does not end in .bin
       \E filename \in FileNames, file_size \in FileSizes :
           /\ ~EndsWith(filename, DotBin)
           /\ ret' = [op |-> "upload_log", filename |-> filename,
                      file_size |-> file_size, status_code |-> 400,
                      detail |-> "Only .bin files are supported"]
           /\ UNCHANGED <<log, mlog, messages, metadata, _parsed, passes, decode_fault,
                          sessions, disk, uuids, now>>
    \/ \* lines 129-145: the size passes the maximum while the file is written;
       \* line 136 removes the file, and the HTTPException(413) of line 137 is
       \* raised inside the try and caught by line 142, which raises 500
       \E filename \in FileNames, file_size \in FileSizes :
           /\ EndsWith(filename, DotBin)
           /\ file_size > max_file_size_mb * 1024 * 1024
           /\ uuids < MaxUuids
           /\ uuids' = uuids + 1
           /\ ret' = [op |-> "upload_log", filename |-> filename,
                      file_size |-> file_size, status_code |-> 500,
                      detail |-> "File upload failed"]
           /\ UNCHANGED <<log, mlog, messages, metadata, _parsed, passes, decode_fault,
                          sessions, disk, now>>
    \/ \* lines 129-170: the file is written; the session is found or made;
       \* the file is parsed and stored in the session, or removed
       \E filename \in FileNames, file_size \in FileSizes :
       /\ EndsWith(filename, DotBin)
       /\ file_size <= max_file_size_mb * 1024 * 1024
       /\ uuids < MaxUuids
       /\ \E session_id \in SessionIds(sessions) :
          \E records \in Logs(AppRecords, MaxAppLen) :
          \E f \in Faults(records) :
           LET temp_path == uuids + 1
               got == get_or_create_session(sessions, now, session_id, uuids + 2)
               sid == got.session_id
               q == ParseResult(NewParser, records, f)
           IN  /\ uuids + (IF got.created THEN 2 ELSE 1) <= MaxUuids
               /\ uuids' = uuids + (IF got.created THEN 2 ELSE 1)
               /\ sessions' = [got.sessions EXCEPT ![sid] = UploadStore(@, q, temp_path)]
               /\ disk' = (CleanupDisk(sessions, disk, now) \cup {temp_path})
                             \ (IF q.raised THEN {temp_path} ELSE {})
               /\ ret' = IF q.raised
                         THEN [op |-> "upload_log", filename |-> filename,
                               file_size |-> file_size, status_code |-> 400,
                               detail |-> "Failed to parse log file"]
                         ELSE [op |-> "upload_log", filename |-> filename,
                               file_size |-> file_size, status_code |-> 200,
                               session_id |-> sid, summary |-> get_summary(q)]
               /\ UNCHANGED <<log, mlog, messages, metadata, _parsed, passes,
                              decode_fault, now>>

\* the limits a tool call passes to get_messages
Limits == {-1, 0, 1, 2}

AnalysisTypes == {"all", "altitude", "battery", "gps", "vibration"}

\* agent.py lines 192-200
ToolDetectAnomalies(p, analysis_type) ==
    LET anomalies == DetectAnomalies(p.messages, p.metadata)
        key == CASE analysis_type = "altitude" -> "altitude_anomalies"
                 [] analysis_type = "battery" -> "battery_anomalies"
                 [] analysis_type = "gps" -> "gps_anomalies"
                 [] OTHER -> "vibration_anomalies"
    IN  IF analysis_type = "all"
        THEN [success |-> TRUE, anomalies |-> anomalies]
        ELSE [success |-> TRUE, anomalies |-> (key :> Get(anomalies, key, <<>>))]

\* agent.py lines 202-212
ToolGetMessageData(p, msg_type, has_limit, limit) ==
    LET msgs == GetMessages(p.messages, msg_type, TRUE, IF has_limit THEN limit ELSE 100)
    IN  [success |-> TRUE,
         message_type |-> msg_type,
         count |-> Len(msgs),
         messages |-> Slice(msgs, 10),
         total_available |-> Len(msgs)]

\* agent.py lines 188-190
ToolQueryFlightData(p, query) ==
    [success |-> TRUE, data |-> QueryData(p.metadata, query)]

\* the fields whose values are not numbers: float() of one raises ValueError
TextFields == {"mavpackettype"}

\* Series.std(): the square root of the sample variance, NaN for one row
SeriesStd(values) ==
    LET n == Len(values)
        squares == [i \in 1..n |-> values[i] * values[i]]
    IN  IF n = 1 THEN "nan"
        ELSE [sqrt_of |-> [num |-> n * SeqSum(squares) - SeqSum(values) * SeqSum(values),
                           den |-> n * (n - 1)]]

\* agent.py lines 214-233 and 238-239
ToolGetTimeSeries(p, msg_type, field) ==
    LET df == GetTimeSeries(p.messages, msg_type, field)
    IN  IF df = None THEN [error |-> <<"No data found for", msg_type, field>>]
        ELSE IF field \in TextFields THEN [error |-> <<"Tool execution failed">>]
        ELSE LET values == [i \in 1..Len(df[1]) |-> df[1][i].value]
             IN  [success |-> TRUE,
                  message_type |-> msg_type,
                  field |-> field,
                  count |-> Len(df[1]),
                  min |-> SeqMin(values),
                  max |-> SeqMax(values),
                  mean |-> [num |-> SeqSum(values), den |-> Len(values)],
                  std |-> SeriesStd(values),
                  sample_data |-> Slice(df[1], 5)]

\* the value _execute_tool returns for the call r
ToolValue(ag, r) ==
    IF ag.parser = NoParser THEN [error |-> <<"No flight log loaded">>]
    ELSE CASE r.tool = "query_flight_data" ->
                ToolQueryFlightData(ag.parser[1], r.query)
           [] r.tool = "detect_anomalies" ->
                ToolDetectAnomalies(ag.parser[1], r.analysis_type)
           [] r.tool = "get_message_data" ->
                ToolGetMessageData(ag.parser[1], r.message_type, r.has_limit, r.limit)
           [] r.tool = "get_time_series" ->
                ToolGetTimeSeries(ag.parser[1], r.message_type, r.field)
           [] OTHER -> [error |-> <<"Unknown tool", r.tool>>]

ToolCalls ==
    {[tool |-> "detect_anomalies", analysis_type |-> a] : a \in AnalysisTypes}
    \cup {[tool |-> "query_flight_data", query |-> q] :
             q \in {Keyword.gps, Keyword.duration, Keyword.max \o Keyword.altitude}}
    \cup {[tool |-> "get_time_series", message_type |-> c[1], field |-> c[2]] :
             c \in {<<"GPS", "Alt">>, <<"GPS", "Volt">>, <<"ATT", "Alt">>,
                    <<"GPS", "mavpackettype">>}}
    \cup {[tool |-> "no_such_tool"]}
    \cup {[tool |-> "get_message_data", message_type |-> t, has_limit |-> FALSE,
           limit |-> 0] : t \in {"GPS", "ATT"}}
    \cup {[tool |-> "get_message_data", message_type |-> "GPS", has_limit |-> TRUE,
           limit |-> n] : n \in Limits}

\* FlightAnalysisAgent._execute_tool, called from the tool loop of the agent
\* of a session
_execute_tool ==
    /\ \E sid \in DOMAIN sessions, r \in ToolCalls :
          ret' = [op |-> "_execute_tool", session_id |-> sid, tool |-> r.tool,
                  arguments |-> r, value |-> ToolValue(sessions[sid].agent, r)]
    /\ UNCHANGED <<log, mlog, messages, metadata, _parsed, passes, decode_fault,
                   sessions, disk, uuids, now>>

NextApp == upload_log \/ _execute_tool

SpecApp == InitApp /\ [][NextApp]_vars

\* C4: a derived-query operation runs only on a parser whose parse() has
\* completed: the parser an agent holds has _parsed set, and every tool
\* call that ran on a parser ran on such a one.
C4_QueriesOnlyOnParsed ==
    /\ \A sid \in DOMAIN sessions :
          sessions[sid].agent.parser # NoParser => sessions[sid].agent.parser[1]._parsed
    /\ (ret.op = "_execute_tool" /\ "success" \in DOMAIN ret.value) =>
          /\ sessions[ret.session_id].agent.parser # NoParser
          /\ sessions[ret.session_id].agent.parser[1]._parsed

\* a tool ran on the log of a session after a later upload had been turned
\* down: it ran on the parser of the earlier upload
C4_Witness ==
    /\ ret.op = "_execute_tool"
    /\ "success" \in DOMAIN ret.value
    /\ ret.tool = "detect_anomalies"
    /\ sessions[ret.session_id].file_path = 1
    /\ uuids = 3
    /\ disk = {1}
    /\ sessions[ret.session_id].parser[1].messages # EmptyDict

(***************************************************************************)
(* Altitude anomalies (specification SpecAlt): logs of GPS records whose   *)
(* timestamps and altitudes put rates below, at and above both thresholds, *)
(* with time running forward, standing still and running backward.         *)
(***************************************************************************)
AltRecords ==
    {Rec("GPS", [TimeUS |-> x[1], Alt |-> x[2]]) :
        x \in {<<0, 10>>, <<1000000, 15>>, <<1000000, 30>>,
               <<3000000, 0>>, <<3000000, 35>>, <<3000000, 100>>}}
    \cup {Rec("GPS", [TimeUS |-> 1000000]), Rec("GPS", [Alt |-> 100])}

InitAlt == InitParser(Logs(AltRecords, MaxAltLen))

SpecAlt == InitAlt /\ [][Next]_vars

\* the GPS records of the store that carry an altitude, in arrival order
AltSamples ==
    IF "GPS" \in DOMAIN messages
    THEN SelectSeq(messages["GPS"], LAMBDA m : "Alt" \in DOMAIN m)
    ELSE <<>>

\* time and altitude deltas of the pair (i, i+1) of altitude samples; a
\* sample without a timestamp is read at time 0, as the code reads it
AltDt(i) == Get(AltSamples[i + 1], "TimeUS", 0) - Get(AltSamples[i], "TimeUS", 0)
AltDa(i) == AltSamples[i + 1]["Alt"] - AltSamples[i]["Alt"]

\* |altitude delta / (time delta / 1e6)| > limit, for a positive time delta
RateAbove(i, limit) == AltDt(i) > 0 /\ Abs(AltDa(i)) * 1000000 > limit * AltDt(i)

AltFlaggedPairs == {i \in 1..(Len(AltSamples) - 1) : RateAbove(i, 10)}

\* the n-th element of a finite set of integers, in increasing order
Nth(S, n) == CHOOSE i \in S : Cardinality({j \in S : j <= i}) = n

\* C7: detect_anomalies flags the consecutive pairs of GPS altitude samples
\* with a positive time delta and |rate| > 10, in arrival order, and no
\* other pair; a flagged pair is high iff |rate| > 20, else medium; and
\* timestamps [0, 1000000, 3000000] with altitudes [10, 15, 100] give one
\* anomaly, high, for the pair 15 -> 100 at rate 42.5.
C7_AltitudeAnomalies ==
    ret.op = "detect_anomalies" =>
        LET found == ret.value.altitude_anomalies
        IN  /\ Len(found) = Cardinality(AltFlaggedPairs)
            /\ \A n \in DOMAIN found :
                  LET i == Nth(AltFlaggedPairs, n)
                  IN  /\ found[n].time_us = Get(AltSamples[i + 1], "TimeUS", 0)
                      /\ found[n].altitude_change_m = AltDa(i)
                      /\ found[n].rate_m_per_s
                            = [num |-> AltDa(i) * 1000000, den |-> AltDt(i)]
                      /\ found[n].severity \in {"high", "medium"}
                      /\ found[n].severity = "high" <=> RateAbove(i, 20)
            /\ Map(AltSamples, LAMBDA m : <<Get(m, "TimeUS", -1), m["Alt"]>>)
                  = <<<<0, 10>>, <<1000000, 15>>, <<3000000, 100>>>>
               => /\ Len(found) = 1
                  /\ found[1].severity = "high"
                  /\ found[1].time_us = 3000000
                  /\ found[1].altitude_change_m = 85
                  /\ found[1].rate_m_per_s = [num |-> 85000000, den |-> 2000000]

C7_Witness ==
    /\ ret.op = "detect_anomalies"
    /\ _parsed
    /\ Map(AltSamples, LAMBDA m : <<Get(m, "TimeUS", -1), m["Alt"]>>)
          = <<<<0, 10>>, <<1000000, 15>>, <<3000000, 100>>>>
    /\ Len(ret.value.altitude_anomalies) = 1

(***************************************************************************)
(* Battery anomalies (specification SpecBat): BAT and BATT records whose   *)
(* voltages rise, and drop by less than, exactly and more than 0.5 and 1.0.*)
(***************************************************************************)
BatRecords ==
    {Rec("BAT", [TimeUS |-> v * 1000, Volt |-> v]) : v \in {126, 125, 120, 118, 115}}
    \cup {Rec("BATT", [TimeUS |-> v * 1000, Volt |-> v]) : v \in {126, 118}}
    \cup {Rec("BAT", [TimeUS |-> 7000])}

InitBat == InitParser(Logs(BatRecords, MaxBatLen))

SpecBat == InitBat /\ [][Next]_vars

\* the voltage samples of the resolved battery type, in arrival order
VoltSamples ==
    LET key == IF "BAT" \in DOMAIN messages THEN "BAT" ELSE "BATT"
    IN  IF key \in DOMAIN messages
        THEN SelectSeq(messages[key], LAMBDA m : "Volt" \in DOMAIN m)
        ELSE <<>>

\* the drop from sample i to sample i+1, in tenths of a volt
VoltDrop(i) == VoltSamples[i]["Volt"] - VoltSamples[i + 1]["Volt"]

VoltFlaggedPairs == {i \in 1..(Len(VoltSamples) - 1) : VoltDrop(i) > 5}

\* C8: detect_anomalies flags the consecutive pairs of voltage samples of
\* the resolved battery type (BAT if present, otherwise BATT) whose voltage
\* drops by more than 0.5, in arrival order, and no other pair; a flagged
\* pair is high iff the drop exceeds 1.0, else medium; and voltages
\* [12.6, 12.5, 11.8] flag exactly the drop 12.5 -> 11.8, as medium.
C8_BatteryAnomalies ==
    ret.op = "detect_anomalies" =>
        LET found == ret.value.battery_anomalies
        IN  /\ Len(found) = Cardinality(VoltFlaggedPairs)
            /\ \A n \in DOMAIN found :
                  LET i == Nth(VoltFlaggedPairs, n)
                  IN  /\ found[n].voltage_drop = -VoltDrop(i)
                      /\ found[n].time_us = Get(VoltSamples[i + 1], "TimeUS", 0)
                      /\ found[n].severity \in {"high", "medium"}
                      /\ found[n].severity = "high" <=> VoltDrop(i) > 10
            /\ Map(VoltSamples, LAMBDA m : m["Volt"]) = <<126, 125, 118>>
               => /\ Len(found) = 1
                  /\ found[1].voltage_drop = -7
                  /\ found[1].severity = "medium"

C8_Witness ==
    /\ ret.op = "detect_anomalies"
    /\ _parsed
    /\ "BAT" \in DOMAIN messages
    /\ Map(VoltSamples, LAMBDA m : m["Volt"]) = <<126, 125, 118>>
    /\ Len(ret.value.battery_anomalies) = 1

(***************************************************************************)
(* GPS-loss events (specification SpecGps): logs of up to MaxGpsLen GPS    *)
(* records with Status 2 or 3, at most MaxLoss of them with Status 2, and  *)
(* logs of up to MaxLen GPS records with Status 0, 2, 3, 4, no Status      *)
(* field or no TimeUS field.  The events are computed by parse(), the one  *)
(* operation of this specification.                                        *)
(***************************************************************************)
GpsFixRecords ==
    {Rec("GPS", [TimeUS |-> 5000000, Status |-> 2]),
     Rec("GPS", [TimeUS |-> 9000000, Status |-> 3])}

GpsRecords ==
    GpsFixRecords
    \cup {Rec("GPS", [TimeUS |-> 6000000, Status |-> 0]),
          Rec("GPS", [TimeUS |-> 8000000, Status |-> 4]),
          Rec("GPS", [TimeUS |-> 7000000]),
          Rec("GPS", [Status |-> 2])}

GpsLongLogs ==
    {l \in Logs(GpsFixRecords, MaxGpsLen) :
        Cardinality({i \in DOMAIN l : l[i].fields["Status"] < 3}) <= MaxLoss}

InitGps == InitParser(GpsLongLogs \cup Logs(GpsRecords, MaxLen))

SpecGps == InitGps /\ [][parse]_vars

\* the positions (from 0) of the GPS records of the store whose status
\* code, read as 0 when the record carries none, is below 3
GpsLossIndices ==
    {i \in 0..(Len(messages["GPS"]) - 1) : Get(messages["GPS"][i + 1], "Status", 0) < 3}

\* C9: the GPS-loss event list holds exactly one event per GPS record whose
\* status code is below 3 and none for another record, in arrival order,
\* each with the record's position in the GPS sequence, its timestamp and
\* its status; status below 3 at positions 4 and 9 only gives exactly two
\* events, with indices 4 and 9.
C9_GpsLossEvents ==
    (_parsed /\ "GPS" \in DOMAIN messages) =>
        /\ "gps_loss_events" \in DOMAIN metadata
        /\ LET events == metadata["gps_loss_events"]
           IN  /\ Len(events) = Cardinality(GpsLossIndices)
               /\ \A n \in DOMAIN events :
                     LET i == Nth(GpsLossIndices, n)
                     IN  /\ events[n].index = i
                         /\ events[n].time_us = Get(messages["GPS"][i + 1], "TimeUS", 0)
                         /\ events[n].status = Get(messages["GPS"][i + 1], "Status", 0)
               /\ GpsLossIndices = {4, 9} =>
                     Map(events, LAMBDA e : e.index) = <<4, 9>>

C9_Witness ==
    /\ _parsed
    /\ Len(log) = 10
    /\ \A i \in 1..10 : Get(log[i].fields, "Status", 0) < 3 <=> i \in {5, 10}
    /\ Map(metadata["gps_loss_events"], LAMBDA e : e.index) = <<4, 9>>

(***************************************************************************)
(* RC-loss events (specification SpecRc): RCIN records with all channels   *)
(* low, one channel at the threshold, mixed, a missing channel, a ninth    *)
(* channel, no timestamp.  The events are computed by parse(), the one     *)
(* operation of this specification.                                        *)
(***************************************************************************)
\* C1..C8 all at v, but channel k (if in 1..8) at w
RcFields(v, k, w) ==
    [c \in {ChannelName(j) : j \in 1..8} |->
        IF k \in 1..8 /\ c = ChannelName(k) THEN w ELSE v]

RcRecords ==
    {Rec("RCIN", Put(RcFields(850, k, 900), "TimeUS", 5000000 + k)) : k \in 0..8}
    \cup {Rec("RCIN", Put(RcFields(899, 0, 0), "TimeUS", 6000000)),
          Rec("RCIN", Put(RcFields(850, 1, 1500), "TimeUS", 6000001)),
          Rec("RCIN", Put(RcFields(1500, 0, 0), "TimeUS", 6000002)),
          Rec("RCIN", Put(Put(RcFields(850, 0, 0), "C9", 1500), "TimeUS", 6000003)),
          Rec("RCIN", RcFields(0, 0, 0)),
          Rec("RCIN", [TimeUS |-> 6000004, C1 |-> 850, C2 |-> 850, C4 |-> 850,
                       C5 |-> 850, C6 |-> 850, C7 |-> 850, C8 |-> 850])}

InitRc == InitParser(Logs(RcRecords, MaxRcLen))

SpecRc == InitRc /\ [][parse]_vars

\* the channel values C1..C8 the record carries
CarriedChannels(m) == {m[c] : c \in {ChannelName(j) : j \in 1..8} \cap DOMAIN m}

\* the positions (from 0) of the RCIN records none of whose channel values
\* C1..C8 is 900 or more
RcLossIndices ==
    {i \in 0..(Len(messages["RCIN"]) - 1) :
        \A c \in CarriedChannels(messages["RCIN"][i + 1]) : c < 900}

\* C10: the RC-loss event list holds an event for an RCIN record, with its
\* position and timestamp, iff every one of the record's channel values
\* C1..C8 is below 900; a record with a channel value of 900 or more gets
\* no event.
C10_RcLossEvents ==
    (_parsed /\ "RCIN" \in DOMAIN messages) =>
        /\ "rc_loss_events" \in DOMAIN metadata
        /\ LET events == metadata["rc_loss_events"]
           IN  /\ Len(events) = Cardinality(RcLossIndices)
               /\ \A n \in DOMAIN events :
                     LET i == Nth(RcLossIndices, n)
                     IN  /\ events[n].index = i
                         /\ events[n].time_us = Get(messages["RCIN"][i + 1], "TimeUS", 0)
               /\ \A i \in 0..(Len(messages["RCIN"]) - 1) :
                     (\E c \in CarriedChannels(messages["RCIN"][i + 1]) : c >= 900)
                        => \A n \in DOMAIN events : events[n].index # i

\* a mixed record, then an all-low one: one event, for the second
C10_Witness ==
    /\ _parsed
    /\ Len(log) = 2
    /\ log[1].fields = Put(RcFields(850, 1, 1500), "TimeUS", 6000001)
    /\ log[2].fields = Put(RcFields(850, 0, 900), "TimeUS", 5000000)
    /\ metadata["rc_loss_events"] = <<[index |-> 1, time_us |-> 5000000]>>

(***************************************************************************)
(* The records detect_anomalies returns (specification Spec).              *)
(***************************************************************************)
\* the categories of the returned dictionary that hold Anomaly Records
AnomalyCategories ==
    {"altitude_anomalies", "battery_anomalies", "gps_anomalies", "vibration_anomalies"}

\* C11: every record detect_anomalies returns, in each of the categories
\* altitude, battery, GPS and vibration, carries a timestamp and a severity
\* that is medium or high.
C11_AnomalyRecordsCarrySeverity ==
    ret.op = "detect_anomalies" =>
        \A k \in AnomalyCategories :
            \A n \in DOMAIN ret.value[k] :
                LET a == ret.value[k][n]
                IN  /\ {"time_us", "severity"} \subseteq DOMAIN a
                    /\ a.severity \in {"medium", "high"}

(***************************************************************************)
(* The query operations of a parser (specification SpecQuery): logs with   *)
(* and without the records each metric is computed from, and query texts   *)
(* made of words that hold the keywords in lower and upper case, inside a  *)
(* longer word, alone and together.                                        *)
(***************************************************************************)
QueryRecords ==
    {Rec("GPS", [TimeUS |-> 1000000, Alt |-> 10, Status |-> 3]),
     Rec("GPS", [TimeUS |-> 4000000, Alt |-> 25, Status |-> 2]),
     Rec("BATT", [TimeUS |-> 2000000, Volt |-> 118]),
     Rec("RCIN", Put(RcFields(1500, 0, 0), "TimeUS", 3000000))}

Word ==
    [what |-> <<"w", "h", "a", "t">>,
     was |-> <<"w", "a", "s">>,
     the |-> <<"t", "h", "e">>,
     max |-> <<"m", "a", "x">>,
     altitude |-> <<"a", "l", "t", "i", "t", "u", "d", "e">>,
     Height |-> <<"H", "e", "i", "g", "h", "t">>,
     MAX |-> <<"M", "A", "X">>,
     highest |-> <<"h", "i", "g", "h", "e", "s", "t">>,
     minimum |-> <<"m", "i", "n", "i", "m", "u", "m">>,
     lowest |-> <<"l", "o", "w", "e", "s", "t">>,
     Average |-> <<"A", "v", "e", "r", "a", "g", "e">>,
     avg |-> <<"a", "v", "g">>,
     battery |-> <<"b", "a", "t", "t", "e", "r", "y">>,
     Voltage |-> <<"V", "o", "l", "t", "a", "g", "e">>,
     temperature |-> <<"t", "e", "m", "p", "e", "r", "a", "t", "u", "r", "e">>,
     GPS |-> <<"G", "P", "S">>,
     flight |-> <<"f", "l", "i", "g", "h", "t">>,
     time |-> <<"t", "i", "m", "e">>,
     duration |-> <<"d", "u", "r", "a", "t", "i", "o", "n">>,
     errors |-> <<"e", "r", "r", "o", "r", "s">>,
     rc |-> <<"r", "c">>,
     source |-> <<"s", "o", "u", "r", "c", "e">>,
     radio |-> <<"r", "a", "d", "i", "o">>,
     signal |-> <<"s", "i", "g", "n", "a", "l">>,
     loss |-> <<"l", "o", "s", "s">>,
     hello |-> <<"h", "e", "l", "l", "o">>]

Join(a, b) == a \o <<" ">> \o b

\* "what was the max altitude"
ExampleQuery ==
    Join(Word.what, Join(Word.was, Join(Word.the, Join(Word.max, Word.altitude))))

Queries ==
    {<<>>, ExampleQuery}
    \cup {Word[w] : w \in DOMAIN Word \ {"what", "was", "the", "flight", "signal", "loss"}}
    \cup {Join(Word[a], Word.altitude) :
            a \in {"highest", "minimum", "lowest", "Average", "avg"}}
    \cup {Join(Word.MAX, Word.Height)}
    \cup {Join(Word.flight, Word.time), Join(Word.time, Word.flight),
          Join(Word.signal, Word.loss), Join(Word.temperature, Word.battery),
          Join(Word.battery, Word.GPS), Join(Word.max, Word.battery)}

InitQuery == InitParser(Logs(QueryRecords, MaxQueryLen))

\* parser.query_data(query) by any caller of the class
query_data ==
    /\ \E query \in Queries :
          ret' = [op |-> "query_data", query |-> query,
                  value |-> QueryData(metadata, query)]
    /\ UNCHANGED <<log, mlog, messages, metadata, _parsed, passes, decode_fault,
                   sessions, disk, uuids, now>>

NextQuery == parse \/ query_data

SpecQuery == InitQuery /\ [][NextQuery]_vars

\* the result keys of each vocabulary category
CategoryKeys ==
    [max_altitude |-> {"max_altitude_m"},
     min_altitude |-> {"min_altitude_m"},
     avg_altitude |-> {"avg_altitude_m"},
     battery |-> {"battery_voltage_max", "battery_voltage_min"},
     temperature |-> {"battery_temp_max", "battery_temp_min"},
     gps |-> {"gps_loss_events", "gps_fix_types"},
     duration |-> {"duration_seconds", "duration_minutes"},
     error |-> {"errors"},
     rc |-> {"rc_loss_events"}]

\* some keyword of the set occurs in the text t, whatever the case
Occurs(t, kws) == \E k \in kws : Contains(Lower(t), Keyword[k])

\* the categories whose keyword occurs in the text t
Asked(t) ==
    {c \in DOMAIN CategoryKeys :
        CASE c = "max_altitude" ->
                Occurs(t, {"altitude", "height"}) /\ Occurs(t, {"max", "highest"})
          [] c = "min_altitude" ->
                Occurs(t, {"altitude", "height"}) /\ Occurs(t, {"min", "lowest"})
          [] c = "avg_altitude" ->
                Occurs(t, {"altitude", "height"}) /\ Occurs(t, {"average", "avg"})
          [] c = "battery" -> Occurs(t, {"battery", "voltage"})
          [] c = "temperature" -> Occurs(t, {"temperature"})
          [] c = "gps" -> Occurs(t, {"gps"})
          [] c = "duration" -> Occurs(t, {"flight_time", "duration"})
          [] c = "error" -> Occurs(t, {"error"})
          [] c = "rc" -> Occurs(t, {"rc", "radio", "signal_loss"})}

\* C12: the result of query_data holds the keys of every category whose
\* keyword occurs in the query and no other key (so the empty mapping when
\* no keyword occurs), and "what was the max altitude" gives the single key
\* max_altitude_m with the metadata's value.
C12_ResultHoldsAskedCategories ==
    ret.op = "query_data" =>
        /\ DOMAIN ret.value = UNION {CategoryKeys[c] : c \in Asked(ret.query)}
        /\ ret.query = ExampleQuery =>
              /\ DOMAIN ret.value = {"max_altitude_m"}
              /\ ret.value["max_altitude_m"] = OptGet(metadata, "max_altitude_m")

\* the metric of the metadata each key of the result reports
MetricOf ==
    [max_altitude_m |-> "max_altitude_m",
     min_altitude_m |-> "min_altitude_m",
     avg_altitude_m |-> "avg_altitude_m",
     battery_voltage_max |-> "max_battery_voltage",
     battery_voltage_min |-> "min_battery_voltage",
     battery_temp_max |-> "max_battery_temp",
     battery_temp_min |-> "min_battery_temp",
     gps_loss_events |-> "gps_loss_events",
     gps_fix_types |-> "gps_fix_types",
     duration_seconds |-> "duration_seconds",
     duration_minutes |-> "duration_seconds",
     errors |-> "errors",
     rc_loss_events |-> "rc_loss_events"]

\* C13: when a metric the query asks for is not in the metadata of a parsed
\* log, the result reports it as absent (None): never a value that reads as
\* measured, such as a duration of 0 or an empty event list.
C13_AbsentMetricReportedAbsent ==
    (ret.op = "query_data" /\ _parsed) =>
        \A k \in DOMAIN ret.value :
            MetricOf[k] \notin DOMAIN metadata => ret.value[k] = None

(***************************************************************************)
(* Time series (specification SpecSeries): GPS records with and without a  *)
(* timestamp, with and without an altitude, and a battery record; series   *)
(* are asked for of types and fields the log has and has not.              *)
(***************************************************************************)
SeriesRecords ==
    {Rec("GPS", [TimeUS |-> 1000000, Alt |-> 10]),
     Rec("GPS", [TimeUS |-> 4000000, Alt |-> 25]),
     Rec("GPS", [Alt |-> 40]),
     Rec("GPS", [TimeUS |-> 2000000]),
     Rec("BATT", [TimeUS |-> 2000000, Volt |-> 118])}

\* the (message type, field) pairs get_time_series is asked for
SeriesCalls == {"GPS", "BATT", "VIBE"} \X {"Alt", "Volt"}

InitSeries == InitParser(Logs(SeriesRecords, MaxSeriesLen))

\* parser.get_time_series(msg_type, field) by any caller of the class
get_time_series ==
    /\ \E c \in SeriesCalls :
          ret' = [op |-> "get_time_series", msg_type |-> c[1], field |-> c[2],
                  value |-> GetTimeSeries(messages, c[1], c[2])]
    /\ UNCHANGED <<log, mlog, messages, metadata, _parsed, passes, decode_fault,
                   sessions, disk, uuids, now>>

NextSeries == parse \/ get_time_series

SpecSeries == InitSeries /\ [][NextSeries]_vars

\* the positions of the records of type t in the store that carry both a
\* timestamp and the field f
Carrying(t, f) ==
    IF t \in DOMAIN messages
    THEN {i \in DOMAIN messages[t] : {"TimeUS", f} \subseteq DOMAIN messages[t][i]}
    ELSE {}

\* C14: get_time_series(t, f) returns the absence marker iff t is not a type
\* of the store or no record of type t carries both a timestamp and f;
\* otherwise it returns one (time, value) row per record of type t that
\* carries both, in arrival order, with the record's value of f and with
\* time = timestamp / 1000000; it never returns an empty or defaulted series.
C14_TimeSeries ==
    ret.op = "get_time_series" =>
        LET t == ret.msg_type
            f == ret.field
        IN  /\ ret.value = None <=> Carrying(t, f) = {}
            /\ ret.value # None =>
                  LET df == ret.value[1]
                  IN  /\ Len(df) = Cardinality(Carrying(t, f))
                      /\ Len(df) > 0
                      /\ \A n \in DOMAIN df :
                            LET m == messages[t][Nth(Carrying(t, f), n)]
                            IN  /\ df[n].value = m[f]
                                /\ df[n].time_us = m["TimeUS"]
                                /\ df[n].time_seconds
                                      = [num |-> m["TimeUS"], den |-> 1000000]

\* three GPS records, the second without a timestamp: two rows, in order
C14_Witness ==
    /\ ret.op = "get_time_series"
    /\ _parsed
    /\ ret.msg_type = "GPS" /\ ret.field = "Alt"
    /\ Len(log) = 3
    /\ log[1].fields = [TimeUS |-> 4000000, Alt |-> 25]
    /\ log[2].fields = [Alt |-> 40]
    /\ log[3].fields = [TimeUS |-> 1000000, Alt |-> 10]
    /\ ret.value # None
    /\ [n \in 1..Len(ret.value[1]) |-> ret.value[1][n].value] = <<25, 10>>

(***************************************************************************)
(* The tools of the agent (specification SpecApp).                         *)
(***************************************************************************)
\* the sequence the store of the agent's parser holds for type t
AgentStore(t) == Get(sessions[ret.session_id].agent.parser[1].messages, t, <<>>)

\* C15: get_message_data returns a preview of at most 10 records that is a
\* prefix of the store's sequence of the type, with no more records than
\* the limit the caller gave (a count, 0 or more), and total_available is
\* the number of records of the type in the store.
C15_PreviewAndTotal ==
    (ret.op = "_execute_tool" /\ ret.tool = "get_message_data"
        /\ "success" \in DOMAIN ret.value) =>
        LET all == AgentStore(ret.arguments.message_type)
            preview == ret.value.messages
        IN  /\ Len(preview) <= 10
            /\ Len(preview) <= Len(all)
            /\ preview = SubSeq(all, 1, Len(preview))
            /\ (ret.arguments.has_limit /\ ret.arguments.limit >= 0) =>
                  Len(preview) <= ret.arguments.limit
            /\ ret.value.total_available = Len(all)

(***************************************************************************)
(* Conversations (specification SpecChat): uploads, chat calls whose LLM   *)
(* request answers or raises, and resets of the history.                   *)
(***************************************************************************)
\* what the client says and what the model answers
UserMessages == {"question"}
LlmOutcomes == {[raised |-> FALSE, content |-> "answer"], [raised |-> TRUE]}

\* FlightAnalysisAgent.chat with the outcome llm of _chat_openai: the agent
\* after the call
AgentChat(ag, user_message, llm) ==
    LET asked == [ag EXCEPT !.conversation_history =
                     Append(@, [role |-> "user", content |-> user_message])]
    IN  IF llm.raised THEN asked
        ELSE [asked EXCEPT !.conversation_history =
                 Append(@, [role |-> "assistant", content |-> llm.content])]

\* POST /api/chat
chat ==
    /\ \E session_id \in SessionIds(sessions) \ {0}, message \in UserMessages, llm \in LlmOutcomes :
          IF session_id \notin DOMAIN sessions
          THEN /\ ret' = [op |-> "chat", status_code |-> 404]
               /\ UNCHANGED sessions
          ELSE /\ Len(sessions[session_id].agent.conversation_history) < MaxHistory
               /\ sessions' = [sessions EXCEPT ![session_id].agent =
                                  AgentChat(@, message, llm)]
               /\ ret' = IF llm.raised
                         THEN [op |-> "chat", status_code |-> 500]
                         ELSE [op |-> "chat", status_code |-> 200,
                               session_id |-> session_id, message |-> llm.content]
    /\ UNCHANGED <<log, mlog, messages, metadata, _parsed, passes, decode_fault,
                   disk, uuids, now>>

\* POST /api/session/{session_id}/reset
reset_session ==
    /\ \E session_id \in SessionIds(sessions) \ {0} :
          IF session_id \notin DOMAIN sessions
          THEN /\ ret' = [op |-> "reset_session", status_code |-> 404]
               /\ UNCHANGED sessions
          ELSE /\ sessions' = [sessions EXCEPT
                                  ![session_id].agent.conversation_history = <<>>]
               /\ ret' = [op |-> "reset_session", status_code |-> 200,
                          session_id |-> session_id]
    /\ UNCHANGED <<log, mlog, messages, metadata, _parsed, passes, decode_fault,
                   disk, uuids, now>>

NextChat == upload_log \/ chat \/ reset_session

SpecChat == InitApp /\ [][NextChat]_vars

\* C17: the conversation history of every agent alternates user and
\* assistant entries, starting with user and ending with assistant: no user
\* message is in the history without the response that answers it.
C17_HistoryAlternates ==
    \A sid \in DOMAIN sessions :
        LET h == sessions[sid].agent.conversation_history
        IN  /\ Len(h) % 2 = 0
            /\ \A i \in DOMAIN h :
                  h[i].role = (IF i % 2 = 1 THEN "user" ELSE "assistant")

(***************************************************************************)
(* Files (specification SpecFiles): uploads, deletion of sessions and the  *)
(* clock, which makes sessions expire at the next upload.                  *)
(***************************************************************************)
\* DELETE /api/session/{session_id}
delete_session ==
    /\ \E session_id \in SessionIds(sessions) \ {0} :
          IF session_id \notin DOMAIN sessions
          THEN /\ ret' = [op |-> "delete_session", status_code |-> 404]
               /\ UNCHANGED <<sessions, disk>>
          ELSE /\ disk' = disk \ {sessions[session_id].file_path}
               /\ sessions' = [sid \in DOMAIN sessions \ {session_id} |-> sessions[sid]]
               /\ ret' = [op |-> "delete_session", status_code |-> 200,
                          session_id |-> session_id]
    /\ UNCHANGED <<log, mlog, messages, metadata, _parsed, passes, decode_fault,
                   uuids, now>>

\* time passes
tick ==
    /\ now < MaxTicks * TickSeconds
    /\ now' = now + TickSeconds
    /\ UNCHANGED <<log, mlog, messages, metadata, _parsed, passes, decode_fault, ret,
                   sessions, disk, uuids>>

NextFiles == upload_log \/ delete_session \/ tick

SpecFiles == InitApp /\ [][NextFiles]_vars

\* the last call was an upload of a .bin file larger than the maximum
TooLargeUpload(r) ==
    /\ r.op = "upload_log"
    /\ EndsWith(r.filename, DotBin)
    /\ r.file_size > 100 * 1024 * 1024

\* C16: an upload whose size exceeds max_file_size_mb is rejected with
\* status 413, leaves no file on disk and creates or modifies no session.
C16_TooLargeRejected413 ==
    [][(TooLargeUpload(ret') /\ uuids' # uuids) =>
          /\ ret'.status_code = 413
          /\ disk' = disk
          /\ sessions' = sessions]_vars

\* C18: every file on disk is the file_path of a live session: a file an
\* upload wrote is referenced by a session or has been removed.
C18_NoUnreferencedFile ==
    \A f \in disk : \E sid \in DOMAIN sessions : sessions[sid].file_path = f

====
